---- MODULE Spec2Model ----
(***************************************************************************)
(* Model of scripts/sync_to_wechat.py: one invocation of main() after      *)
(* another over a persistent workspace (token cache file, ledger file),    *)
(* with the remote API and process termination as nondeterministic         *)
(* environment.                                                            *)
(***************************************************************************)
EXTENDS Integers, Sequences, FiniteSets, TLC

VARIABLES APP_ID, APP_SECRET, IMAGES_LIST, files, wsExists, tokenFile,
          historyFile, now, run, pc, exit_code, token, history, idx,
          result, success_count, skip_count, fail_count,
          uploadCalls, exchangeCalls, sleepCalls, dirCreated, tokenFrom,
          exch, lastOutcome, delayed, committed, prevEnd, prevFail

vars == <<APP_ID, APP_SECRET, IMAGES_LIST, files, wsExists, tokenFile,
          historyFile, now, run, pc, exit_code, token, history, idx,
          result, success_count, skip_count, fail_count,
          uploadCalls, exchangeCalls, sleepCalls, dirCreated, tokenFrom,
          exch, lastOutcome, delayed, committed, prevEnd, prevFail>>

\* ---------------------------------------------------------------- bounds
MaxLen  == 2      \* longest input list
MaxRuns == 2      \* invocations of the script in one behaviour
MaxGap  == 1      \* longest pause between two invocations

\* ------------------------------------------------------ program constants
Margin    == 300  \* "expires_in - 300"
SleepSecs == 1    \* time.sleep(1)

\* ------------------------------------------------------------ value sets
None  == "<None>"           \* Python None where a string is expected
Paths == { <<"a", "/", "b">>, <<"c">> }
Contents == {"x", "y"}     \* what a local file holds now ("x") or held before
CurrentContent == "x"
NoFile   == "<missing>"

\* original_path.replace("/", "_")
Flatten(p) == [i \in DOMAIN p |-> IF p[i] = "/" THEN "_" ELSE p[i]]

LocalNames == { Flatten(p) : p \in Paths }

\* hashlib.md5 over the file's bytes, as a digest per content
calculate_md5(content) ==
    CASE content = "x" -> "md5:9dd4"
      [] content = "y" -> "md5:4152"
      [] OTHER         -> "md5:d41d"

\* os.path.exists(local_filename)
FileExists(p) == files[Flatten(p)] /= NoFile

FileMd5(p) == calculate_md5(files[Flatten(p)])

\* --------------------------------------------------------- ledger on disk
\* json.dump(history, f): the text as the set of its "key": {...} members
json_dump(h) == { <<k, h[k]>> : k \in DOMAIN h }

\* json.load(f) of such a text
json_load(text) ==
    [k \in { m[1] : m \in text } |-> (CHOOSE m \in text : m[1] = k)[2]]

NoText == {}
AbsentFile    == [state |-> "absent",    text |-> NoText]
CorruptFile   == [state |-> "corrupt",   text |-> NoText]
TruncatedFile == [state |-> "truncated", text |-> NoText]
JsonFile(h)   == [state |-> "json",      text |-> json_dump(h)]

EmptyHistory == [k \in {} |-> 0]

\* variant: the ledger file is never read back
load_history_empty(f) == EmptyHistory

load_history(f) ==
    IF f.state = "json" THEN json_load(f.text) ELSE EmptyHistory

Entry(media_id, url, md5, t) ==
    [media_id |-> media_id, url |-> url, md5 |-> md5, time |-> t]

\* ---------------------------------------------------------- token cache
NoCache       == [state |-> "absent",  has_token |-> FALSE, token |-> None, expires_at |-> 0]
CorruptCache  == [state |-> "corrupt", has_token |-> FALSE, token |-> None, expires_at |-> 0]
CacheJson(tok, exp) ==
    [state |-> "json", has_token |-> TRUE, token |-> tok, expires_at |-> exp]
CacheJsonNoToken(exp) ==
    [state |-> "json", has_token |-> FALSE, token |-> None, expires_at |-> exp]

\* variant: the five-minute margin is forgotten
ExpiresAtNoMargin(t, expires_in) == t + expires_in

\* expires_at = time.time() + data['expires_in'] - 300
ExpiresAt(t, expires_in) == t + expires_in - Margin

\* the cached branch of get_access_token is taken
CacheValid(f, t) ==
    /\ f.state = "json"
    /\ f.expires_at > t
    /\ f.has_token

HasCredentials == APP_ID \notin {None, ""} /\ APP_SECRET \notin {None, ""}

\* ------------------------------------------------------------ remote API
ExpiresInValues == {Margin, Margin + 2}

\* outcome of requests.get(token url) followed by res.json()
ExchangeResponses ==
    { [ok |-> TRUE, has_access_token |-> TRUE, access_token |-> "T1",
       has_expires_in |-> TRUE, expires_in |-> e] : e \in ExpiresInValues }
    \cup
    { [ok |-> TRUE, has_access_token |-> TRUE, access_token |-> "T1",
       has_expires_in |-> FALSE, expires_in |-> 0],
      [ok |-> TRUE, has_access_token |-> FALSE, access_token |-> None,
       has_expires_in |-> FALSE, expires_in |-> 0],
      [ok |-> FALSE, has_access_token |-> FALSE, access_token |-> None,
       has_expires_in |-> FALSE, expires_in |-> 0] }

\* value returned by upload_image
UploadResults ==
    { [has_media_id |-> TRUE,  media_id |-> "M1", url |-> "http://u/1", errcode |-> 0],
      [has_media_id |-> FALSE, media_id |-> None, url |-> None,         errcode |-> 40001],
      [has_media_id |-> FALSE, media_id |-> None, url |-> None,         errcode |-> -1] }

NoResult == [has_media_id |-> FALSE, media_id |-> None, url |-> None, errcode |-> 0]
NoExch   == [known |-> FALSE, time |-> 0, expires_in |-> 0]

\* ------------------------------------------------------------------ Init
InitCaches ==
    { NoCache, CorruptCache, CacheJsonNoToken(5),
      CacheJson("T0", 0), CacheJson("T0", 2) }

InitHistories ==
    UNION { [K -> { Entry("M0", None, calculate_md5(c), -1) : c \in Contents }]
            : K \in SUBSET Paths }

InitLedgers ==
    { AbsentFile, CorruptFile } \cup { JsonFile(h) : h \in InitHistories }

InputLists == UNION { [1..n -> Paths] : n \in 0..MaxLen }

Init ==
    /\ APP_ID \in {None, "", "wx1"}
    /\ APP_SECRET \in {None, "s3"}
    /\ IMAGES_LIST \in InputLists
    /\ files \in [LocalNames -> {CurrentContent, NoFile}]
    /\ wsExists \in BOOLEAN
    /\ tokenFile \in (IF wsExists THEN InitCaches ELSE {NoCache})
    /\ historyFile \in (IF wsExists THEN InitLedgers ELSE {AbsentFile})
    /\ now = 0
    /\ run = 1
    /\ pc = "main"
    /\ exit_code = -1
    /\ token = None
    /\ history = EmptyHistory
    /\ idx = 0
    /\ result = NoResult
    /\ success_count = 0
    /\ skip_count = 0
    /\ fail_count = 0
    /\ uploadCalls = 0
    /\ exchangeCalls = 0
    /\ sleepCalls = 0
    /\ dirCreated = FALSE
    /\ tokenFrom = "none"
    /\ exch = NoExch
    /\ lastOutcome = "none"
    /\ delayed = FALSE
    /\ committed = {}
    /\ prevEnd = "none"
    /\ prevFail = 0

\* groups of variables for UNCHANGED
env      == <<APP_ID, APP_SECRET, IMAGES_LIST, files>>
counters == <<success_count, skip_count, fail_count>>
prev     == <<prevEnd, prevFail>>

\* ------------------------------------------------------------- main(), 92-104
\* "if not IMAGES_LIST: return"
MainEmpty ==
    /\ pc = "main"
    /\ IMAGES_LIST = <<>>
    /\ pc' = "done"
    /\ exit_code' = 0
    /\ UNCHANGED <<env, wsExists, tokenFile, historyFile, now, run, token,
                   history, idx, result, counters, uploadCalls, exchangeCalls,
                   sleepCalls, dirCreated, tokenFrom, exch, lastOutcome,
                   delayed, committed, prev>>

\* os.makedirs(WORKSPACE_DIR, exist_ok=True)
MainMakedirs ==
    /\ pc = "main"
    /\ IMAGES_LIST /= <<>>
    /\ wsExists' = TRUE
    /\ dirCreated' = ~wsExists
    /\ pc' = "token"
    /\ UNCHANGED <<env, tokenFile, historyFile, now, run, exit_code, token,
                   history, idx, result, counters, uploadCalls, exchangeCalls,
                   sleepCalls, tokenFrom, exch, lastOutcome, delayed,
                   committed, prev>>

\* ------------------------------------------------- get_access_token(), 44-75
GetTokenNoCredentials ==
    /\ pc = "token"
    /\ ~HasCredentials
    /\ token' = None
    /\ tokenFrom' = "none"
    /\ pc' = "tokcheck"
    /\ UNCHANGED <<env, wsExists, tokenFile, historyFile, now, run, exit_code,
                   history, idx, result, counters, uploadCalls, exchangeCalls,
                   sleepCalls, dirCreated, exch, lastOutcome, delayed,
                   committed, prev>>

GetTokenCached ==
    /\ pc = "token"
    /\ HasCredentials
    /\ CacheValid(tokenFile, now)
    /\ token' = tokenFile.token
    /\ tokenFrom' = "cache"
    /\ pc' = "tokcheck"
    /\ UNCHANGED <<env, wsExists, tokenFile, historyFile, now, run, exit_code,
                   history, idx, result, counters, uploadCalls, exchangeCalls,
                   sleepCalls, dirCreated, exch, lastOutcome, delayed,
                   committed, prev>>

\* the try block of lines 61-69 runs to its return
ExchangeSucceeds(resp) ==
    resp.ok /\ resp.has_access_token /\ resp.has_expires_in

TokenExchangeOk(resp) ==
    /\ pc = "token"
    /\ HasCredentials
    /\ ~CacheValid(tokenFile, now)
    /\ ExchangeSucceeds(resp)
    /\ exchangeCalls' = exchangeCalls + 1
    /\ tokenFile' = CacheJson(resp.access_token, ExpiresAt(now, resp.expires_in))
    /\ exch' = [known |-> TRUE, time |-> now, expires_in |-> resp.expires_in]
    /\ token' = resp.access_token
    /\ tokenFrom' = "exchange"
    /\ pc' = "tokcheck"
    /\ UNCHANGED <<env, wsExists, historyFile, now, run, exit_code, history,
                   idx, result, counters, uploadCalls, sleepCalls, dirCreated,
                   lastOutcome, delayed, committed, prev>>

\* variant: the cache file is opened for writing before the response is looked at
TokenExchangeFailTruncates(resp) ==
    /\ pc = "token"
    /\ HasCredentials
    /\ ~CacheValid(tokenFile, now)
    /\ ~ExchangeSucceeds(resp)
    /\ exchangeCalls' = exchangeCalls + 1
    /\ tokenFile' = CorruptCache
    /\ token' = None
    /\ tokenFrom' = "none"
    /\ pc' = "tokcheck"
    /\ UNCHANGED <<env, wsExists, historyFile, now, run, exit_code,
                   history, idx, result, counters, uploadCalls, sleepCalls,
                   dirCreated, exch, lastOutcome, delayed, committed, prev>>

TokenExchangeFail(resp) ==
    /\ pc = "token"
    /\ HasCredentials
    /\ ~CacheValid(tokenFile, now)
    /\ ~ExchangeSucceeds(resp)
    /\ exchangeCalls' = exchangeCalls + 1
    /\ token' = None
    /\ tokenFrom' = "none"
    /\ pc' = "tokcheck"
    /\ UNCHANGED <<env, wsExists, tokenFile, historyFile, now, run, exit_code,
                   history, idx, result, counters, uploadCalls, sleepCalls,
                   dirCreated, exch, lastOutcome, delayed, committed, prev>>

\* "if not token: sys.exit(1)"
TokenCheckExit ==
    /\ pc = "tokcheck"
    /\ token \in {None, ""}
    /\ pc' = "exit"
    /\ exit_code' = 1
    /\ UNCHANGED <<env, wsExists, tokenFile, historyFile, now, run, token,
                   history, idx, result, counters, uploadCalls, exchangeCalls,
                   sleepCalls, dirCreated, tokenFrom, exch, lastOutcome,
                   delayed, committed, prev>>

\* "history = load_history()" and the three counters
LoadHistory ==
    /\ pc = "tokcheck"
    /\ token \notin {None, ""}
    /\ history' = load_history(historyFile)
    /\ committed' = DOMAIN history'
    /\ success_count' = 0
    /\ skip_count' = 0
    /\ fail_count' = 0
    /\ idx' = 1
    /\ pc' = "loop"
    /\ UNCHANGED <<env, wsExists, tokenFile, historyFile, now, run, exit_code,
                   token, result, uploadCalls, exchangeCalls, sleepCalls,
                   dirCreated, tokenFrom, exch, lastOutcome, delayed, prev>>

\* ------------------------------------------------------ the sync loop, 111-156
InLoop == pc = "loop" /\ idx <= Len(IMAGES_LIST)

img_rel_path == IMAGES_LIST[idx]

\* variant: the stored media_id is compared with the hash
ShouldSkipWrongField(h, p, m) == p \in DOMAIN h /\ h[p].media_id = m

\* lines 130-131
ShouldSkip(h, p, m) == p \in DOMAIN h /\ h[p].md5 = m

\* variant: an existing entry is kept (setdefault instead of assignment)
PutIfAbsent(h, p, e) ==
    [k \in DOMAIN h \cup {p} |-> IF k \in DOMAIN h THEN h[k] ELSE e]

\* history[img_rel_path] = {...}
Put(h, p, e) == [k \in DOMAIN h \cup {p} |-> IF k = p THEN e ELSE h[k]]

\* variant: a missing file is counted as a failure
LoopMissingCounted ==
    /\ InLoop
    /\ ~FileExists(img_rel_path)
    /\ fail_count' = fail_count + 1
    /\ idx' = idx + 1
    /\ lastOutcome' = "missing"
    /\ delayed' = FALSE
    /\ UNCHANGED <<env, wsExists, tokenFile, historyFile, now, run, pc,
                   exit_code, token, history, result, success_count,
                   skip_count, uploadCalls, exchangeCalls, sleepCalls,
                   dirCreated, tokenFrom, exch, committed, prev>>

LoopMissing ==
    /\ InLoop
    /\ ~FileExists(img_rel_path)
    /\ idx' = idx + 1
    /\ lastOutcome' = "missing"
    /\ delayed' = FALSE
    /\ UNCHANGED <<env, wsExists, tokenFile, historyFile, now, run, pc,
                   exit_code, token, history, result, counters, uploadCalls,
                   exchangeCalls, sleepCalls, dirCreated, tokenFrom, exch,
                   committed, prev>>

LoopSkip ==
    /\ InLoop
    /\ FileExists(img_rel_path)
    /\ ShouldSkip(history, img_rel_path, FileMd5(img_rel_path))
    /\ skip_count' = skip_count + 1
    /\ idx' = idx + 1
    /\ lastOutcome' = "skip"
    /\ delayed' = FALSE
    /\ UNCHANGED <<env, wsExists, tokenFile, historyFile, now, run, pc,
                   exit_code, token, history, result, success_count,
                   fail_count, uploadCalls, exchangeCalls, sleepCalls,
                   dirCreated, tokenFrom, exch, committed, prev>>

UploadSuccess(r) ==
    /\ InLoop
    /\ FileExists(img_rel_path)
    /\ ~ShouldSkip(history, img_rel_path, FileMd5(img_rel_path))
    /\ r.has_media_id
    /\ uploadCalls' = uploadCalls + 1
    /\ result' = r
    /\ history' = Put(history, img_rel_path,
                      Entry(r.media_id, r.url, FileMd5(img_rel_path), now))
    /\ success_count' = success_count + 1
    /\ lastOutcome' = "ok"
    /\ delayed' = FALSE
    /\ pc' = "save"
    /\ UNCHANGED <<env, wsExists, tokenFile, historyFile, now, run, exit_code,
                   token, idx, skip_count, fail_count, exchangeCalls,
                   sleepCalls, dirCreated, tokenFrom, exch, committed, prev>>

\* variant: a failed upload ends the run with status 1
UploadFailAbort(r) ==
    /\ InLoop
    /\ FileExists(img_rel_path)
    /\ ~ShouldSkip(history, img_rel_path, FileMd5(img_rel_path))
    /\ ~r.has_media_id
    /\ uploadCalls' = uploadCalls + 1
    /\ result' = r
    /\ fail_count' = fail_count + 1
    /\ lastOutcome' = "fail"
    /\ delayed' = FALSE
    /\ pc' = "exit"
    /\ exit_code' = 1
    /\ UNCHANGED <<env, wsExists, tokenFile, historyFile, now, run,
                   token, history, idx, success_count, skip_count,
                   exchangeCalls, sleepCalls, dirCreated, tokenFrom, exch,
                   committed, prev>>

\* variant: a failed upload continues with the next path at once
UploadFailNoSleep(r) ==
    /\ InLoop
    /\ FileExists(img_rel_path)
    /\ ~ShouldSkip(history, img_rel_path, FileMd5(img_rel_path))
    /\ ~r.has_media_id
    /\ uploadCalls' = uploadCalls + 1
    /\ fail_count' = fail_count + 1
    /\ lastOutcome' = "fail"
    /\ delayed' = FALSE
    /\ idx' = idx + 1
    /\ UNCHANGED <<env, wsExists, tokenFile, historyFile, now, run, pc,
                   exit_code, token, history, result, success_count,
                   skip_count, exchangeCalls, sleepCalls, dirCreated,
                   tokenFrom, exch, committed, prev>>

UploadFail(r) ==
    /\ InLoop
    /\ FileExists(img_rel_path)
    /\ ~ShouldSkip(history, img_rel_path, FileMd5(img_rel_path))
    /\ ~r.has_media_id
    /\ uploadCalls' = uploadCalls + 1
    /\ result' = r
    /\ fail_count' = fail_count + 1
    /\ lastOutcome' = "fail"
    /\ delayed' = FALSE
    /\ pc' = "sleep"
    /\ UNCHANGED <<env, wsExists, tokenFile, historyFile, now, run, exit_code,
                   token, history, idx, success_count, skip_count,
                   exchangeCalls, sleepCalls, dirCreated, tokenFrom, exch,
                   committed, prev>>

\* save_history: makedirs, then open(HISTORY_FILE, 'w') truncates the file
SaveOpen ==
    /\ pc = "save"
    /\ wsExists' = TRUE
    /\ historyFile' = TruncatedFile
    /\ pc' = "write"
    /\ UNCHANGED <<env, tokenFile, now, run, exit_code, token, history, idx,
                   result, counters, uploadCalls, exchangeCalls, sleepCalls,
                   dirCreated, tokenFrom, exch, lastOutcome, delayed,
                   committed, prev>>

\* save_history: json.dump(history, f) and the close of the file
SaveWrite ==
    /\ pc = "write"
    /\ historyFile' = JsonFile(history)
    /\ committed' = DOMAIN history
    /\ pc' = "sleep"
    /\ UNCHANGED <<env, wsExists, tokenFile, now, run, exit_code, token,
                   history, idx, result, counters, uploadCalls, exchangeCalls,
                   sleepCalls, dirCreated, tokenFrom, exch, lastOutcome,
                   delayed, prev>>

\* time.sleep(1), then the next iteration
Sleep ==
    /\ pc = "sleep"
    /\ now' = now + SleepSecs
    /\ sleepCalls' = sleepCalls + 1
    /\ delayed' = TRUE
    /\ result' = NoResult
    /\ idx' = idx + 1
    /\ pc' = "loop"
    /\ UNCHANGED <<env, wsExists, tokenFile, historyFile, run, exit_code,
                   token, history, counters, uploadCalls, exchangeCalls,
                   dirCreated, tokenFrom, exch, lastOutcome, committed, prev>>

\* the list is exhausted: the summary line, main returns
Summary ==
    /\ pc = "loop"
    /\ idx > Len(IMAGES_LIST)
    /\ pc' = "done"
    /\ exit_code' = 0
    /\ UNCHANGED <<env, wsExists, tokenFile, historyFile, now, run, token,
                   history, idx, result, counters, uploadCalls, exchangeCalls,
                   sleepCalls, dirCreated, tokenFrom, exch, lastOutcome,
                   delayed, committed, prev>>

\* ------------------------------------------------------------ environment
Running == pc \in {"main", "token", "tokcheck", "loop", "save", "write", "sleep"}
Ended   == pc \in {"done", "exit", "killed"}

\* the process is terminated: everything in memory is gone, the files stay
Kill ==
    /\ Running
    /\ pc' = "killed"
    /\ exit_code' = -1
    /\ token' = None
    /\ history' = EmptyHistory
    /\ idx' = 0
    /\ result' = NoResult
    /\ success_count' = 0
    /\ skip_count' = 0
    /\ fail_count' = 0
    /\ lastOutcome' = "none"
    /\ delayed' = FALSE
    /\ uploadCalls' = 0
    /\ exchangeCalls' = 0
    /\ sleepCalls' = 0
    /\ dirCreated' = FALSE
    /\ tokenFrom' = "none"
    /\ UNCHANGED <<env, wsExists, tokenFile, historyFile, now, run, exch,
                   committed, prev>>

\* the script is invoked again with the same argument and the same files
NextRun(gap) ==
    /\ Ended
    /\ run < MaxRuns
    /\ run' = run + 1
    /\ now' = now + gap
    /\ prevEnd' = pc
    /\ prevFail' = fail_count
    /\ pc' = "main"
    /\ exit_code' = -1
    /\ token' = None
    /\ history' = EmptyHistory
    /\ idx' = 0
    /\ result' = NoResult
    /\ success_count' = 0
    /\ skip_count' = 0
    /\ fail_count' = 0
    /\ uploadCalls' = 0
    /\ exchangeCalls' = 0
    /\ sleepCalls' = 0
    /\ dirCreated' = FALSE
    /\ tokenFrom' = "none"
    /\ lastOutcome' = "none"
    /\ delayed' = FALSE
    /\ UNCHANGED <<env, wsExists, tokenFile, historyFile, exch, committed>>

Next ==
    \/ MainEmpty
    \/ MainMakedirs
    \/ GetTokenNoCredentials
    \/ GetTokenCached
    \/ \E resp \in ExchangeResponses : TokenExchangeOk(resp)
    \/ \E resp \in ExchangeResponses : TokenExchangeFail(resp)
    \/ TokenCheckExit
    \/ LoadHistory
    \/ LoopMissing
    \/ LoopSkip
    \/ \E r \in UploadResults : UploadSuccess(r)
    \/ \E r \in UploadResults : UploadFail(r)
    \/ SaveOpen
    \/ SaveWrite
    \/ Sleep
    \/ Summary
    \/ Kill
    \/ \E gap \in 0..MaxGap : NextRun(gap)

Spec == Init /\ [][Next]_vars

TypeOK ==
    /\ pc \in {"main", "token", "tokcheck", "loop", "save", "write", "sleep",
               "done", "exit", "killed"}
    /\ run \in 1..MaxRuns
    /\ DOMAIN history \subseteq Paths

\* ================================================================ properties
\* a step of the program itself (the process is not terminated in it)
NotKilled == pc' /= "killed"

Sum == success_count + skip_count + fail_count

\* ---- C1
C1_SkipStep ==
    ( /\ InLoop
      /\ FileExists(img_rel_path)
      /\ img_rel_path \in DOMAIN history
      /\ history[img_rel_path].md5 = FileMd5(img_rel_path)
      /\ NotKilled )
    => /\ uploadCalls' = uploadCalls
       /\ skip_count' = skip_count + 1
       /\ success_count' = success_count
       /\ fail_count' = fail_count
       /\ history' = history
       /\ historyFile' = historyFile

\* C1: in the sync loop, a path whose local file exists and whose fresh MD5
\* equals the md5 of its ledger entry is not uploaded; skip_count grows by one,
\* success_count and fail_count stay, and the ledger in memory and on disk is
\* left unchanged.
C1_SkipOnEqualHash == [][C1_SkipStep]_vars

C1_Witness ==
    /\ pc = "loop"
    /\ lastOutcome = "skip"
    /\ skip_count = 1
    /\ uploadCalls = 0
    /\ historyFile.state = "json"

\* ---- C2
C2_UploadStep ==
    (uploadCalls' = uploadCalls + 1 /\ result'.has_media_id)
    => LET p == img_rel_path IN
       /\ DOMAIN history' = DOMAIN history \cup {p}
       /\ Cardinality({ m \in json_dump(history') : m[1] = p }) = 1
       /\ history'[p].md5 = FileMd5(p)
       /\ history'[p].media_id = result'.media_id
       /\ \A k \in DOMAIN history \ {p} : history'[k] = history[k]

\* C2: when upload_image returns a result with media_id for a path (with or
\* without an earlier entry), the ledger afterwards holds exactly one entry
\* under that path, with the hash computed in this iteration and the returned
\* media_id; the key set is the old one plus that path and every other entry
\* is unchanged.
C2_SuccessRecordsEntry == [][C2_UploadStep]_vars

C2_Witness ==
    /\ pc = "save"
    /\ result.has_media_id
    /\ img_rel_path \in committed
    /\ Cardinality(DOMAIN history) = 2
    /\ history[img_rel_path].media_id = "M1"
    /\ \E k \in DOMAIN history : history[k].media_id = "M0"

\* ---- C3
C3_FailStep ==
    (uploadCalls' = uploadCalls + 1 /\ ~result'.has_media_id)
    => /\ history' = history
       /\ historyFile' = historyFile
       /\ fail_count' = fail_count + 1
       /\ success_count' = success_count
       /\ skip_count' = skip_count
       /\ pc' = "sleep"

C3_GoesOn ==
    (pc = "sleep" /\ NotKilled)
    => (pc' = "loop" /\ idx' = idx + 1 /\ historyFile' = historyFile)

\* C3: when upload_image returns a result without media_id (provider error or
\* the errcode -1 result), the ledger entry of the path stays as it was,
\* save_history is not called, fail_count grows by one, the loop goes on to
\* the next path, and the run still ends with exit status 0.
C3_FailedUploadIsCounted ==
    /\ [][C3_FailStep /\ C3_GoesOn]_vars
    /\ [](pc = "done" => exit_code = 0)

C3_Witness ==
    /\ pc = "done"
    /\ exit_code = 0
    /\ fail_count = 1
    /\ success_count = 1
    /\ lastOutcome = "ok"

\* ---- C4
NumExisting ==
    Cardinality({ i \in 1..Len(IMAGES_LIST) : FileExists(IMAGES_LIST[i]) })

C5_AbortBeforeSideEffects ==
    (~HasCredentials /\ IMAGES_LIST /= <<>>)
    => /\ ~dirCreated
       /\ exchangeCalls = 0
       /\ uploadCalls = 0
       /\ pc \in {"done", "exit"} => exit_code /= 0

\* ---- C6
ServedFromCache ==
    exchangeCalls' = exchangeCalls /\ token' = tokenFile.token

C6_TokenStep ==
    (pc = "token" /\ HasCredentials /\ pc' = "tokcheck")
    => /\ ServedFromCache
          <=> ( /\ tokenFile.state = "json"
                /\ tokenFile.has_token
                /\ tokenFile.expires_at > now )
       /\ (ServedFromCache /\ exch.known)
          => now < exch.time + exch.expires_in - Margin

\* C6: with the credentials present, get_access_token returns the cached token
\* without an exchange exactly when the cache file is readable and its
\* expires_at is greater than the current time; a token this program cached is
\* never served at or after (time of its exchange + expires_in - 300).
C6_CachedTokenWithinMargin == [][C6_TokenStep]_vars

C6_Witness ==
    /\ run = 2
    /\ pc = "tokcheck"
    /\ tokenFrom = "cache"
    /\ exch.known
    /\ token = "T1"

\* ---- C7
C7_ExchangeStep ==
    /\ (exchangeCalls' = exchangeCalls + 1 /\ token' = None)
       => /\ tokenFile' = tokenFile
          /\ historyFile' = historyFile
          /\ exchangeCalls' = 1
    /\ (tokenFile' /= tokenFile)
       => /\ exchangeCalls' = exchangeCalls + 1
          /\ token' /= None
          /\ tokenFile'.token = token'
    /\ (pc = "tokcheck" /\ token = None /\ NotKilled)
       => (pc' = "exit" /\ exit_code' = 1)

C7_AfterFailure ==
    (exchangeCalls >= 1 /\ tokenFrom = "none")
    => /\ exchangeCalls = 1
       /\ uploadCalls = 0
       /\ pc \in {"tokcheck", "exit"}
       /\ pc = "exit" => exit_code = 1

\* C7: when no valid cached token exists and the exchange fails, one exchange
\* attempt is made, the token-cache file is left unchanged, and the run exits
\* with status 1 without an upload call and without changing the ledger file;
\* the token-cache file is overwritten only by an exchange that returned a
\* token.
C7_FailedExchangeAborts ==
    /\ [][C7_ExchangeStep]_vars
    /\ []C7_AfterFailure

C7_Witness ==
    /\ pc = "exit"
    /\ exit_code = 1
    /\ exchangeCalls = 1
    /\ tokenFrom = "none"
    /\ HasCredentials
    /\ tokenFile = CacheJson("T0", 0)

\* ---- C8
C8_LoadStep ==
    (pc = "tokcheck" /\ pc' = "loop") => committed \subseteq DOMAIN history'

\* C8: wherever a run is terminated (also in the middle of save_history), the
\* ledger loaded by the next run contains every entry the ledger had at the
\* start of the run and every upload whose save was reached, with at most the
\* in-flight upload missing.
C8_WriteThroughSurvivesKill == [][C8_LoadStep]_vars

\* ---- C9
\* C9 as claimed: the delay occurs before the next path is processed whatever
\* the outcome of the earlier one (skipped, uploaded, failed).
C9_Original ==
    (InLoop /\ lastOutcome \in {"skip", "ok", "fail"}) => delayed

\* C9 (amended): after a path is uploaded or fails to upload, the 1-unit delay
\* occurs before the next path is processed (and before the summary); after a
\* skipped or missing path the loop goes on with no delay, so the number of
\* delays is the number of upload calls.
C9_DelayAfterUploadOnly ==
    (pc \in {"loop", "done"})
    => /\ lastOutcome \in {"ok", "fail"} => delayed
       /\ lastOutcome \in {"skip", "missing"} => ~delayed
       /\ sleepCalls = success_count + fail_count
       /\ sleepCalls = uploadCalls

C9_Witness ==
    /\ InLoop
    /\ lastOutcome = "fail"
    /\ delayed
    /\ sleepCalls = 1

\* ---- C10
Handled ==
    IF pc \in {"save", "write", "sleep"} THEN idx ELSE idx - 1

HandledExisting ==
    Cardinality({ i \in 1..Handled : FileExists(IMAGES_LIST[i]) })

C10_Counters ==
    /\ pc \in {"loop", "save", "write", "sleep", "done"}
       => Sum = HandledExisting
    /\ (pc = "done" /\ IMAGES_LIST /= <<>>) => Sum = NumExisting

C10_MissingStep ==
    (InLoop /\ ~FileExists(img_rel_path) /\ NotKilled)
    => /\ uploadCalls' = uploadCalls
       /\ history' = history
       /\ historyFile' = historyFile
       /\ success_count' = success_count
       /\ skip_count' = skip_count
       /\ fail_count' = fail_count
       /\ pc' = "loop"
       /\ idx' = idx + 1

\* C10: a path whose local file is missing causes no upload call, no ledger
\* change and no counter increment, and the loop continues; in every state of
\* the loop the three counters sum to the number of handled paths whose file
\* existed, and in the summary to (length of the list - number of missing).
C10_MissingNotCounted ==
    /\ []C10_Counters
    /\ [][C10_MissingStep]_vars

C10_Witness ==
    /\ pc = "done"
    /\ Len(IMAGES_LIST) = 2
    /\ lastOutcome = "missing"
    /\ Sum = 1
    /\ NumExisting = 1

====
